---- MODULE Spec2Model ----
(***************************************************************************)
(* State-machine model of the WallpaperGenerator React component and the   *)
(* PhonePreview component it renders                                        *)
(* (src/frontend/src/components/WallpaperGenerator.jsx).                    *)
(*                                                                         *)
(* One action is one task of the browser's event loop: a DOM event handler *)
(* together with the re-render React commits for it, or the continuation   *)
(* of generateWallpaper after its await together with its re-render.       *)
(* JavaScript values are strings; a prompt is a sequence of characters so  *)
(* that String.prototype.trim can be computed.                             *)
(***************************************************************************)
EXTENDS Naturals, Sequences, FiniteSets

VARIABLES
    prompt,          \* useState('')      line 16
    style,           \* useState('')      line 17
    isGenerating,    \* useState(false)   line 18
    generatedImage,  \* useState(null)    line 19
    error,           \* useState(null)    line 20
    pending,         \* bodies of the axios.post calls that have not settled
    console,         \* last value handed to console.error, NoLog if none
    clicked,         \* last <a> element downloadWallpaper clicked, NoLink if none
    view,            \* what the last render put on the screen
    lastEvent,       \* history: the task that produced this state
    completed        \* history: some generateWallpaper call has run to its end

vars == <<prompt, style, isGenerating, generatedImage, error, pending,
          console, clicked, view, lastEvent, completed>>

---------------------------------------------------------------------------
(* Bounds *)

MaxLen == 2        \* longest text typed into the textarea
MaxPending == 2    \* cap on unsettled requests (only a faulty guard reaches it)
MaxTime == 2       \* Date.now() ranges over 1..MaxTime

---------------------------------------------------------------------------
(* JavaScript values *)

Null == "<null>"
Undefined == "<undefined>"
NoLog == "<nothing logged>"
NoLink == [href |-> Null, download |-> <<>>, target |-> Null]

\* JavaScript truthiness of a string-or-null-or-undefined value
Truthy(v) == v \notin {Null, Undefined, ""}

\* truthiness of a text held as a sequence of characters: '' is falsy
TruthyText(text) == Len(text) > 0

Chars == {" ", "a"}
IsWhitespace(c) == c = " "

Prompts == UNION {[1..n -> Chars] : n \in 0..MaxLen}

\* the six quick prompts are phrases of words separated by single blanks
QuickPrompts == {<<"a", " ", "a">>}

\* values of the <SelectItem>s: styleOption.toLowerCase()
StyleValues == {"abstract", "neon"}

ImageUrls == {"https://x/y.jpg", "https://x/z.jpg"}
ServerErrors == {"", "bad prompt"}
RawErrors == {"Network Error", "Request failed with status code 500"}
Timestamps == 1..MaxTime

\* response.data: { success: boolean, image_url?: string, error?: string }.
\* A response that reports success carries the reference of its image; one
\* that does not may carry a message, an empty message or none, and may
\* lack the flag.
Responses ==
    [success : {TRUE}, image_url : ImageUrls]
        \cup [success : {FALSE}, error : ServerErrors]
        \cup [success : {FALSE}]
        \cup [error : ServerErrors]

\* property access on response.data
Field(r, f) == IF f \in DOMAIN r THEN r[f] ELSE Undefined
SuccessFlag(r) == "success" \in DOMAIN r /\ r.success

---------------------------------------------------------------------------
(* String.prototype.trim *)

RECURSIVE trimStart(_)
trimStart(s) ==
    IF s = <<>> THEN <<>>
    ELSE IF IsWhitespace(Head(s)) THEN trimStart(Tail(s))
    ELSE s

RECURSIVE trimEnd(_)
trimEnd(s) ==
    IF s = <<>> THEN <<>>
    ELSE IF IsWhitespace(s[Len(s)]) THEN trimEnd(SubSeq(s, 1, Len(s) - 1))
    ELSE s

trim_None(s) == s

trim(s) == trimEnd(trimStart(s))

---------------------------------------------------------------------------
(* Rendering *)

PromptMessage == "Please enter a prompt"
FallbackMessage == "Failed to generate wallpaper"
TransportMessage == "Failed to generate wallpaper. Please try again."

PhonePreview_ImageFirst(imageUrl, isLoading) ==
    IF Truthy(imageUrl) THEN "image"
    ELSE IF isLoading THEN "spinner"
    ELSE "placeholder"

PhonePreview(imageUrl, isLoading) ==
    IF isLoading THEN "spinner"
    ELSE IF Truthy(imageUrl) THEN "image"
    ELSE "placeholder"

ButtonDisabled_Never(generating) == FALSE

\* disabled={isGenerating} on the Generate and Regenerate buttons
ButtonDisabled(generating) == generating

ResultButtons_Always(image) == TRUE

\* {generatedImage && ( <Download/> <Regenerate/> )}
ResultButtons(image) == Truthy(image)

\* {error && <div>{error}</div>}
ErrorBanner(err) == IF Truthy(err) THEN err ELSE Null

Render(generating, image, err) ==
    [ generateDisabled   |-> ButtonDisabled(generating),
      errorBanner        |-> ErrorBanner(err),
      preview            |-> PhonePreview(image, generating),
      resultButtons      |-> ResultButtons(image),
      regenerateDisabled |-> ButtonDisabled(generating) ]

Event(op, arg) == [op |-> op, arg |-> arg]

---------------------------------------------------------------------------
(* Initial state: the first render of the component *)

Init ==
    /\ prompt = <<>>
    /\ style = ""
    /\ isGenerating = FALSE
    /\ generatedImage = Null
    /\ error = Null
    /\ pending = <<>>
    /\ console = NoLog
    /\ clicked = NoLink
    /\ view = Render(FALSE, Null, Null)
    /\ lastEvent = Event("mount", Null)
    /\ completed = FALSE

---------------------------------------------------------------------------
(* Input handlers *)

\* <Textarea onChange={(e) => setPrompt(e.target.value)}>
UpdatePrompt ==
    \E text \in Prompts :
        /\ prompt' = text
        /\ lastEvent' = Event("updatePrompt", text)
        /\ UNCHANGED <<style, isGenerating, generatedImage, error, pending,
                       console, clicked, view, completed>>

\* <Badge onClick={() => setPrompt(quickPrompt)}>
ClickQuickPrompt ==
    \E quickPrompt \in QuickPrompts :
        /\ prompt' = quickPrompt
        /\ lastEvent' = Event("updatePrompt", quickPrompt)
        /\ UNCHANGED <<style, isGenerating, generatedImage, error, pending,
                       console, clicked, view, completed>>

\* <Select onValueChange={setStyle}>
UpdateStyle ==
    \E label \in StyleValues :
        /\ style' = label
        /\ lastEvent' = Event("updateStyle", label)
        /\ UNCHANGED <<prompt, isGenerating, generatedImage, error, pending,
                       console, clicked, view, completed>>

---------------------------------------------------------------------------
(* generateWallpaper, up to its await *)

generateWallpaper_KeepError ==
    IF ~TruthyText(trim(prompt))
    THEN /\ error' = PromptMessage
         /\ view' = Render(isGenerating, generatedImage, error')
         /\ lastEvent' = Event("rejected", prompt)
         /\ completed' = TRUE
         /\ UNCHANGED <<prompt, style, isGenerating, generatedImage, pending,
                        console, clicked>>
    ELSE /\ Len(pending) < MaxPending
         /\ isGenerating' = TRUE
         /\ pending' = Append(pending, [prompt |-> trim(prompt),
                                        style |-> style,
                                        aspect_ratio |-> "9:16"])
         /\ view' = Render(TRUE, generatedImage, error)
         /\ lastEvent' = Event("submitted", prompt)
         /\ UNCHANGED <<prompt, style, generatedImage, error, console,
                        clicked, completed>>

generateWallpaper ==
    IF ~TruthyText(trim(prompt))
    THEN \* setError('Please enter a prompt'); return
         /\ error' = PromptMessage
         /\ view' = Render(isGenerating, generatedImage, error')
         /\ lastEvent' = Event("rejected", prompt)
         /\ completed' = TRUE
         /\ UNCHANGED <<prompt, style, isGenerating, generatedImage, pending,
                        console, clicked>>
    ELSE \* setIsGenerating(true); setError(null); axios.post(...)
         /\ Len(pending) < MaxPending
         /\ isGenerating' = TRUE
         /\ error' = Null
         /\ pending' = Append(pending, [prompt |-> trim(prompt),
                                        style |-> style,
                                        aspect_ratio |-> "9:16"])
         /\ view' = Render(TRUE, generatedImage, Null)
         /\ lastEvent' = Event("submitted", prompt)
         /\ UNCHANGED <<prompt, style, generatedImage, console, clicked,
                        completed>>

\* click on the Generate button
ClickGenerate ==
    /\ ~view.generateDisabled
    /\ generateWallpaper

\* click on the Regenerate button
ClickRegenerate ==
    /\ view.resultButtons
    /\ ~view.regenerateDisabled
    /\ generateWallpaper

\* click on a button that is rendered disabled: the browser calls no handler
ClickDisabled ==
    /\ \/ view.generateDisabled
       \/ view.resultButtons /\ view.regenerateDisabled
    /\ lastEvent' = Event("clickDisabled", Null)
    /\ UNCHANGED <<prompt, style, isGenerating, generatedImage, error,
                   pending, console, clicked, view, completed>>

---------------------------------------------------------------------------
(* generateWallpaper, after its await *)

Remove(s, i) == SubSeq(s, 1, i - 1) \o SubSeq(s, i + 1, Len(s))

\* the message of the else branch: response.data.error || '...'
ServerMessage_Raw(r) == Field(r, "error")

ServerMessage(r) ==
    IF Truthy(Field(r, "error")) THEN Field(r, "error") ELSE FallbackMessage

\* the image stored by the then branch
StoredImage_Previous(r, previous) == previous

StoredImage(r, previous) == Field(r, "image_url")

\* the message of the catch block
CatchMessage_Raw(err) == err

CatchMessage(err) == TransportMessage

\* the finally block: setIsGenerating(false)
Finally_Missing(generating) == generating

Finally(generating) == FALSE

\* the awaited post is fulfilled with a 2xx response
Resolve ==
    \E i \in 1..Len(pending), r \in Responses :
        /\ pending' = Remove(pending, i)
        /\ IF SuccessFlag(r)
           THEN /\ generatedImage' = StoredImage(r, generatedImage)
                /\ error' = error
           ELSE /\ error' = ServerMessage(r)
                /\ generatedImage' = generatedImage
        /\ isGenerating' = Finally(isGenerating)
        /\ view' = Render(isGenerating', generatedImage', error')
        /\ lastEvent' = Event("response", r)
        /\ completed' = TRUE
        /\ UNCHANGED <<prompt, style, console, clicked>>

\* the awaited post is rejected: network error, non-2xx status, timeout
Reject ==
    \E i \in 1..Len(pending), err \in RawErrors :
        /\ pending' = Remove(pending, i)
        /\ console' = err
        /\ error' = CatchMessage(err)
        /\ isGenerating' = Finally(isGenerating)
        /\ view' = Render(isGenerating', generatedImage, error')
        /\ lastEvent' = Event("transportFailure", err)
        /\ completed' = TRUE
        /\ UNCHANGED <<prompt, style, generatedImage, clicked>>

---------------------------------------------------------------------------
(* downloadWallpaper *)

downloadWallpaper(now) ==
    /\ clicked' = IF Truthy(generatedImage)
                  THEN [href |-> generatedImage,
                        download |-> <<"wallpaper-", now, ".jpg">>,
                        target |-> "_blank"]
                  ELSE clicked
    /\ lastEvent' = Event("download", now)
    /\ UNCHANGED <<prompt, style, isGenerating, generatedImage, error,
                   pending, console, view, completed>>

\* click on the Download button
ClickDownload ==
    /\ view.resultButtons
    /\ \E now \in Timestamps : downloadWallpaper(now)

---------------------------------------------------------------------------

Next ==
    \/ UpdatePrompt
    \/ ClickQuickPrompt
    \/ UpdateStyle
    \/ ClickGenerate
    \/ ClickRegenerate
    \/ ClickDisabled
    \/ Resolve
    \/ Reject
    \/ ClickDownload

Spec == Init /\ [][Next]_vars

\* every outbound call settles: axios fulfils or rejects the promise
FairSpec == Spec /\ WF_vars(Resolve \/ Reject)

---------------------------------------------------------------------------
(* Vocabulary of the properties *)

\* The UI status, derived from the three state fields.  A field counts as
\* set when it is not null.
Status ==
    IF isGenerating THEN "Generating"
    ELSE IF error # Null THEN "Failed"
    ELSE IF generatedImage # Null THEN "Succeeded"
    ELSE "Idle"

\* a text that is empty or consists only of whitespace
IsBlank(text) == \A i \in 1..Len(text) : IsWhitespace(text[i])

\* a generateWallpaper call has run to its end and none is under way
Terminal == ~isGenerating /\ completed

Settled == lastEvent.op \in {"response", "transportFailure"}

---------------------------------------------------------------------------
(* C1 *)

\* C1: in every terminal state (not generating, some submit completed)
\* exactly one of generatedImage and error is non-null.
C1_ExactlyOneOfImageAndError ==
    Terminal => ((generatedImage # Null) <=> (error = Null))

---------------------------------------------------------------------------
(* C2 *)

\* C2: no step leaves more than one request in flight, and no step taken
\* while isGenerating is true adds a request; while isGenerating is true
\* both submit buttons are disabled and exactly one request is in flight.
C2_AtMostOneInFlight ==
    [][ /\ Len(pending') <= 1
        /\ isGenerating => Len(pending') <= Len(pending)
        /\ isGenerating' => /\ Len(pending') = 1
                            /\ view'.generateDisabled
                            /\ view'.regenerateDisabled ]_vars

\* a click landed on a disabled submit button while a request was in flight
C2_Witness ==
    /\ lastEvent.op = "clickDisabled"
    /\ isGenerating
    /\ Len(pending) = 1
    /\ Truthy(generatedImage)

---------------------------------------------------------------------------
(* C3 *)

\* C3: a submit with an empty or whitespace-only prompt issues no request,
\* sets the error to 'Please enter a prompt' (which the banner shows) and
\* leaves isGenerating false.
C3_BlankPromptRejected ==
    (lastEvent.op \in {"submitted", "rejected"} /\ IsBlank(lastEvent.arg))
        => /\ lastEvent.op = "rejected"
           /\ pending = <<>>
           /\ ~isGenerating
           /\ error = "Please enter a prompt"
           /\ view.errorBanner = "Please enter a prompt"

\* a whitespace-only prompt was submitted after an earlier success
C3_Witness ==
    /\ lastEvent.op = "rejected"
    /\ lastEvent.arg = <<" ", " ">>
    /\ error = "Please enter a prompt"
    /\ Truthy(generatedImage)

---------------------------------------------------------------------------
(* C4 *)

C4_Listed(from, to, event) ==
    \/ from = "Idle" /\ to = "Generating" /\ event.op = "submitted"
    \/ /\ from = "Generating" /\ to = "Succeeded"
       /\ event.op = "response" /\ SuccessFlag(event.arg)
    \/ /\ from = "Generating" /\ to = "Failed"
       /\ \/ event.op = "response" /\ ~SuccessFlag(event.arg)
          \/ event.op = "transportFailure"
    \/ /\ from \in {"Succeeded", "Failed"} /\ to = "Generating"
       /\ event.op = "submitted"

\* C4 as stated: the status changes only along the listed transitions.
C4_OnlyListedTransitions ==
    [][Status' # Status => C4_Listed(Status, Status', lastEvent')]_vars

\* C4 as amended: the status changes only along the listed transitions or,
\* on a submit the validation rejects, from Idle or Succeeded to Failed.
C4_ListedOrValidationFailure ==
    [][Status' # Status =>
          \/ C4_Listed(Status, Status', lastEvent')
          \/ /\ Status \in {"Idle", "Succeeded"} /\ Status' = "Failed"
             /\ lastEvent'.op = "rejected" ]_vars

\* a resubmit after a transport failure has succeeded
C4_Witness ==
    /\ lastEvent.op = "response"
    /\ Status = "Succeeded"
    /\ console # NoLog

---------------------------------------------------------------------------
(* C5 *)

\* C5: after a response with success true and image_url u the UI is not
\* generating, the error is null, the status is Succeeded and the stored
\* image reference is u.
C5_SuccessStoresImage ==
    (/\ lastEvent.op = "response"
     /\ SuccessFlag(lastEvent.arg)
     /\ "image_url" \in DOMAIN lastEvent.arg)
        => /\ ~isGenerating
           /\ error = Null
           /\ Status = "Succeeded"
           /\ generatedImage = lastEvent.arg.image_url

\* an image replaced an earlier, downloaded one, after a transport failure
C5_Witness ==
    /\ lastEvent.op = "response"
    /\ SuccessFlag(lastEvent.arg)
    /\ generatedImage = "https://x/z.jpg"
    /\ clicked.href = "https://x/y.jpg"
    /\ console # NoLog

---------------------------------------------------------------------------
(* C6 *)

\* C6: after a response whose success flag is false (or missing) the status
\* is Failed and the error, which the banner shows, is the server's message
\* when the response carries a non-empty one and 'Failed to generate
\* wallpaper' when it carries none.
C6_ServerErrorShown ==
    (lastEvent.op = "response" /\ ~SuccessFlag(lastEvent.arg))
        => /\ Status = "Failed"
           /\ view.errorBanner = error
           /\ LET r == lastEvent.arg
                  hasMessage == "error" \in DOMAIN r /\ r.error # ""
              IN  /\ hasMessage => error = r.error
                  /\ ~hasMessage => error = "Failed to generate wallpaper"

\* the server's message is shown over a stale image
C6_Witness ==
    /\ lastEvent.op = "response"
    /\ lastEvent.arg = [success |-> FALSE, error |-> "bad prompt"]
    /\ error = "bad prompt"
    /\ Truthy(generatedImage)

---------------------------------------------------------------------------
(* C7 *)

\* C7: after a transport failure the status is Failed and the error, which
\* the banner shows, is the fixed string; the raw error goes to the console
\* and is never the error state or the banner.
C7_TransportErrorHidden ==
    /\ error \notin RawErrors
    /\ view.errorBanner \notin RawErrors
    /\ lastEvent.op = "transportFailure"
          => /\ Status = "Failed"
             /\ error = "Failed to generate wallpaper. Please try again."
             /\ view.errorBanner = error
             /\ console = lastEvent.arg

\* a non-2xx answer failed a regeneration
C7_Witness ==
    /\ lastEvent.op = "transportFailure"
    /\ lastEvent.arg = "Request failed with status code 500"
    /\ Truthy(generatedImage)

---------------------------------------------------------------------------
(* C8 *)

\* C8: the preview shows the spinner whenever isGenerating is true, the
\* image when it is false and an image reference is present, the
\* placeholder when it is false and none is present; it never shows an
\* image while a request is in flight.
C8_PreviewStates ==
    /\ isGenerating => view.preview = "spinner"
    /\ (~isGenerating /\ Truthy(generatedImage)) => view.preview = "image"
    /\ (~isGenerating /\ ~Truthy(generatedImage))
          => view.preview = "placeholder"
    /\ pending # <<>> => view.preview # "image"

\* the spinner is shown over a stale image reference
C8_Witness ==
    /\ isGenerating
    /\ pending # <<>>
    /\ Truthy(generatedImage)
    /\ view.preview = "spinner"

---------------------------------------------------------------------------
(* C9 *)

\* C9: while no image reference is stored the Download button is not
\* rendered, no step saves a file, and before the first image is stored
\* nothing has been saved.
C9_NoDownloadWithoutImage ==
    /\ [](~Truthy(generatedImage) => ~view.resultButtons)
    /\ [](generatedImage = Null => clicked = NoLink)
    /\ [][~Truthy(generatedImage) => clicked' = clicked]_vars

\* a submit has failed with no image stored: there is no Download button
C9_Witness ==
    /\ generatedImage = Null
    /\ lastEvent.op = "transportFailure"
    /\ ~view.resultButtons
    /\ clicked = NoLink

---------------------------------------------------------------------------
(* C10 *)

\* C10: whenever the UI is generating it eventually is not, and after each
\* of the three outcomes isGenerating is false and the Generate button is
\* enabled again.
C10_GeneratingEnds ==
    /\ isGenerating ~> ~isGenerating
    /\ [](Settled => ~isGenerating /\ ~view.generateDisabled)

\* a new submit went out after a transport failure ended the previous one
C10_Witness ==
    /\ lastEvent.op = "submitted"
    /\ isGenerating
    /\ console # NoLog
    /\ completed

====
